---- MODULE Spec2Model ----
(***************************************************************************)
(* The feedback pipeline of rag_service: the RabbitMQ consumer             *)
(* (utils/rabbitmq_consumer.py), the submission handler                    *)
(* (handlers/feedback_handler.py), the feedback processor                  *)
(* (core/feedback_processor.py) and the outbound queue manager             *)
(* (utils/queue_manager.py), over the Feedback Request table and the       *)
(* broker's inbound queue; and the assignment context cache                *)
(* (core/assignment_context_manager.py, core/context_fetcher.py) over the  *)
(* Assignment Context table and the context API; and the similarity index  *)
(* (core/vector_store.py, core/embedding_utils.py, core/rag_utils.py) over *)
(* the Vector Store table.                                                 *)
(***************************************************************************)
EXTENDS Integers, Sequences, FiniteSets, TLC

VARIABLES
    workers,      \* the consumer processes that are running
    faults,       \* whether calls into the record store (frappe) may fail
    inbound,      \* the plagiarism-results queue: <<[body, state]>>, position = delivery tag
    pc,           \* per consumer: where process_message / handle_submission stands
    cur,          \* per consumer: the message handed to process_message (0: none yet)
    existing,     \* per consumer: existing_requests of create_feedback_request
    request_id,   \* per consumer: request_id of handle_submission (0: None)
    exc,          \* per consumer: str(e) of the failure of the current attempt
    raised,       \* per consumer: an exception left handle_submission
    sent,         \* per consumer: basic_publish succeeded during the current attempt
    records,      \* the Feedback Request table, name = position
    outbound,     \* messages published on the feedback-results queue, per submission_id
    enable_caching, \* RAG Settings: enable_caching
    now,          \* the clock that now_datetime(), datetime.now() and NOW() read
    contexts,     \* the Assignment Context table, name = position
    ctx,          \* per process: its call of get_assignment_context / refresh_cache
    invalidated,  \* the assignment ids invalidated since their last lookup
    reply,        \* per consumer: what the model answered in generate_feedback
    dispatch,     \* per consumer: the connects and basic_publish calls of the attempt
    published,    \* the messages on the feedback results queue, as key sets
    answer,       \* what the last get_request_status returned
    retried,      \* how the last retry_failed_request ended
    vector_stores, \* the Vector Store table with its embedding files, name = position
    faiss,        \* faiss_manager.index: whether it is None, and the vectors it holds
    vector_ids,   \* faiss_manager.vector_ids
    outcome       \* what the last call on the index did and returned

\* the variables of the context cache
cachevars == <<enable_caching, now, contexts, ctx, invalidated>>

\* the variables of the feedback pipeline
pipevars == <<inbound, pc, cur, existing, request_id, exc, raised, sent, records, outbound,
              reply, dispatch, published, answer, retried>>

\* the variables of the similarity index
indexvars == <<vector_stores, faiss, vector_ids, outcome>>

vars == <<workers, faults, inbound, pc, cur, existing, request_id, exc, raised, sent,
          records, outbound, enable_caching, now, contexts, ctx, invalidated,
          reply, dispatch, published, answer, retried,
          vector_stores, faiss, vector_ids, outcome>>

-----------------------------------------------------------------------------
(* Bounds of the model *)

\* inbound messages ever sent to the queue
MaxMsgs == 2
\* a valid message is delivered only while its submission's record is below this
AttemptBound == 4
\* the clock stops here: no request to the context API is issued at this time
MaxTime == 5

-----------------------------------------------------------------------------
(* Program constants and input domains *)

Consumers == {1, 2}
Subs == {"s1", "s2"}

\* "Max 3 attempts"
max_attempts == 3

auto_ack_on == TRUE
\* auto_ack=False in basic_consume
auto_ack == FALSE

\* the field names an inbound JSON object may carry
Fields == {"submission_id", "student_id", "assignment_id", "img_url"}

required_fields_short == {"submission_id", "student_id", "assignment_id"}
\* required_fields of process_message
required_fields == {"submission_id", "student_id", "assignment_id", "img_url"}

\* process_feedback is a plain def: its call evaluates to None
process_feedback_result == "None"

\* `await x`: a coroutine is awaited; anything else raises TypeError
Awaitable(x) == x = "coroutine"

\* Bodies put on the inbound queue: a body that json.loads rejects, or a JSON
\* object carrying all required fields or all but one. sid is the value of
\* submission_id; process_message reads it only from a body that passed the check.
Bodies ==
    {[json |-> FALSE, object |-> FALSE, fields |-> {}, sid |-> "none"]}
    \cup {[json |-> TRUE, object |-> FALSE, fields |-> {}, sid |-> "none"]}
    \cup {[json |-> TRUE, object |-> TRUE, fields |-> Fields \ {f}, sid |-> "none"] :
              f \in Fields}
    \cup {[json |-> TRUE, object |-> TRUE, fields |-> Fields, sid |-> s] : s \in Subs}

\* missing_fields = [field for field in required_fields if field not in message]
MissingFields(body) == {f \in required_fields : f \notin body.fields}

NoExisting(s) == {}
\* frappe.get_list("Feedback Request", filters={"submission_id": ...})
ExistingRequests(s) ==
    {r \in DOMAIN records : records[r].submission_id = s}

\* frappe.new_doc("Feedback Request") as filled by create_feedback_request
NewRequest(s) ==
    [submission_id |-> s, status |-> "Processing", processing_attempts |-> 1,
     error_log |-> "none", generated_feedback |-> FALSE, completed_at |-> FALSE]

\* the update branch of create_feedback_request
Reprocess(doc) ==
    [doc EXCEPT !.processing_attempts = @ + 1, !.status = "Processing",
                !.error_log = "none"]

\* an update that leaves completed_at as it was
CompleteNoTimestamp(doc) ==
    [doc EXCEPT !.status = "Completed", !.generated_feedback = TRUE, !.error_log = "none"]

\* update_feedback_request
Complete(doc) ==
    [doc EXCEPT !.status = "Completed", !.generated_feedback = TRUE,
                !.completed_at = TRUE, !.error_log = "none"]

ErrorTextLost(msg) == "none"
\* str(e) as stored in error_log: the text is kept only as far as being non-empty
ErrorText(msg) == IF msg = "none" THEN "none" ELSE "error"

\* the outcomes of a call into the record store
StoreOutcomes == IF faults THEN BOOLEAN ELSE {TRUE}

MarkFailedSkipped(tab, r, msg, ok) == tab
\* mark_request_failed (handler and processor write the same three fields);
\* every failure inside it is swallowed, leaving the table as it was
MarkFailed(tab, r, msg, ok) ==
    IF ok /\ r \in DOMAIN tab
    THEN [tab EXCEPT ![r] = [@ EXCEPT !.status = "Failed", !.error_log = ErrorText(msg),
                                      !.completed_at = TRUE]]
    ELSE tab

\* the submission_id of the message a consumer is processing
Sid(c) == inbound[cur[c]].body.sid

\* the empty slot a settled (acknowledged or rejected) delivery leaves behind
NoBody == [json |-> FALSE, object |-> FALSE, fields |-> {}, sid |-> "none"]

SetState(m, st) == [inbound EXCEPT ![m].state = st]

\* an answer that never reaches the broker: the delivery stays unanswered
SettleUnanswered(m, st) == inbound

\* basic_ack, or basic_nack(requeue=False): the broker discards the message
Settle(m, st) ==
    [inbound EXCEPT ![m] = [body |-> NoBody, state |-> st, answers |-> @.answers + 1]]

\* a requeue that never reaches the broker: the delivery stays unanswered
RequeueUnanswered(m) == inbound

\* basic_nack(requeue=True): the broker puts the message back on the queue
Requeue(m) == [inbound EXCEPT ![m].state = "ready", ![m].answers = @ + 1]

\* the broker delivers the message under a new delivery tag
Handover(m) == [inbound EXCEPT ![m].state = "unacked", ![m].answers = 0]

\* `field not in message` raises TypeError for a JSON value that is no container
NotIterable(body) == body.json /\ ~body.object

\* a message may still be delivered within the bounds of the model
WithinHorizon(m) ==
    \A r \in DOMAIN records :
        records[r].submission_id = inbound[m].body.sid
            => records[r].processing_attempts < AttemptBound

\* the six fields of a feedback as the prompt asks for it
FeedbackFields ==
    {"overall_feedback", "strengths", "areas_for_improvement",
     "learning_objectives_feedback", "grade_recommendation", "encouragement"}

feedback_required_short == FeedbackFields \ {"encouragement"}
\* required_fields of generate_feedback
feedback_required == FeedbackFields

\* how the calls to the model end: validate_submission_image rejects the image;
\* or the llm answers a JSON object with all six fields or without
\* encouragement, or a text that json.loads rejects; or a call raises
Replies == {"rejected image", "complete", "incomplete", "unparseable", "error"}

\* json.loads of the cleaned reply: the keys of the object
ParsedFields(r) ==
    IF r = "complete" THEN FeedbackFields ELSE FeedbackFields \ {"encouragement"}

\* the fixed feedback of the except json.JSONDecodeError branch
fallback_feedback == FeedbackFields

\* the fixed feedback returned for an image that validate_submission_image rejects
error_feedback == FeedbackFields

\* generate_feedback: the feedback dict it returns, or that it raises
Feedback(r) ==
    IF r = "rejected image" THEN [raises |-> FALSE, fields |-> error_feedback]
    ELSE IF r = "error" THEN [raises |-> TRUE, fields |-> {}]
    ELSE LET feedback == IF r = "unparseable" THEN fallback_feedback ELSE ParsedFields(r)
         IN  [raises |-> feedback_required \ feedback # {}, fields |-> feedback]

\* prepare_tap_feedback: the keys of the dict it returns
PrepareTapFeedback ==
    {"submission_id", "student_id", "assignment_id", "feedback", "generated_at", "grade"}

\* the message of send_feedback_to_tap: {**feedback_data, "sent_at", "service"}
Message(s, feedback_data) ==
    [submission_id |-> s, keys |-> feedback_data \cup {"sent_at", "service"}]

\* how a call of send_feedback_to_tap ends: connect() raises, basic_publish
\* raises, or the message is on the queue
SendOutcomes == {"connect failed", "publish failed", "sent"}

\* get_request_status not called yet
NoAnswer ==
    [request_id |-> 0, status |-> "none", processing_attempts |-> 0,
     has_feedback |-> FALSE, has_error |-> FALSE, error_message |-> "none",
     error |-> "none"]

\* retry_failed_request not called yet
NoRetry == [request_id |-> 0, started |-> FALSE, error |-> "none"]

\* how frappe.get_doc("Feedback Request", request_id) ends
GetDoc(id, ok) ==
    IF ~ok THEN "Exception"
    ELSE IF id \in DOMAIN records THEN "doc" ELSE "DoesNotExistError"

\* bool(x) of a text field: None and the empty text are false
Bool(x) == x # "none"

\* a status that reports no error whatever the error_log
StatusOfSilent(id, doc) ==
    [NoAnswer EXCEPT !.request_id = id, !.status = doc.status,
                     !.processing_attempts = doc.processing_attempts,
                     !.has_feedback = doc.generated_feedback]

\* the status dict get_request_status builds from the document
StatusOf(id, doc) ==
    [NoAnswer EXCEPT !.request_id = id, !.status = doc.status,
                     !.processing_attempts = doc.processing_attempts,
                     !.has_feedback = doc.generated_feedback,
                     !.has_error = Bool(doc.error_log),
                     !.error_message = IF Bool(doc.error_log) THEN doc.error_log
                                       ELSE "none"]

\* the dict of the except frappe.DoesNotExistError branch
NotFound(id) ==
    [NoAnswer EXCEPT !.request_id = id, !.status = "Not Found",
                     !.error = "Request not found"]

\* the dict of the except Exception branch
Unknown(id) ==
    [NoAnswer EXCEPT !.request_id = id, !.status = "Unknown", !.error = "error"]

\* no connection opened, nothing published
NoDispatch == [connects |-> 0, publishes |-> 0]

\* process_message returns (or the process dies): its locals are gone
Forget(c) ==
    /\ cur' = [cur EXCEPT ![c] = 0]
    /\ existing' = [existing EXCEPT ![c] = {}]
    /\ request_id' = [request_id EXCEPT ![c] = 0]
    /\ exc' = [exc EXCEPT ![c] = "none"]
    /\ raised' = [raised EXCEPT ![c] = FALSE]
    /\ sent' = [sent EXCEPT ![c] = FALSE]
    /\ reply' = [reply EXCEPT ![c] = "none"]
    /\ dispatch' = [dispatch EXCEPT ![c] = NoDispatch]

-----------------------------------------------------------------------------
(* The assignment context cache: constants and input domains *)

Aids == {"a1", "a2"}

\* the two implementations of get_assignment_context
Impls == {"manager", "fetcher"}

\* RAG Settings: cache_duration_days, in units of the clock
cache_duration == 2

\* self.max_retries of AssignmentContextFetcher
max_retries == 3

\* self.retry_delay of AssignmentContextFetcher, in seconds
retry_delay == 1

\* What the context API may answer to one request: a 200 response with a
\* 'message' body, an HTTP error status, a 200 response without 'message', or
\* no response at all (connection error, timeout)
Responses == {"ok", "401", "403", "404", "500", "malformed", "unreachable"}

\* AssignmentContextFetcher._fetch_from_api: the failures after which the loop
\* goes on. A 401 raises ValueError before raise_for_status and a malformed
\* response raises ValueError after it: both land in `except Exception`, which
\* waits and continues; only a 403 or 404 reaches the `break`.
Retryable(r) == r \in {"401", "500", "malformed", "unreachable"}

WaitTimeFlat(attempt) == retry_delay
\* _wait_before_retry: wait_time = self.retry_delay * (2 ** attempt)
WaitTime(attempt) == retry_delay * (2 ^ attempt)

ValidOrNow(doc, t) == doc.cache_valid_till >= t
\* the filter "cache_valid_till": [">", now]
Valid(doc, t) == doc.cache_valid_till > t

\* the Assignment Context records of an assignment_id
ContextsOf(aid) == {n \in DOMAIN contexts : contexts[n].assignment_id = aid}

\* the name the cache lookup may return: manager, get_list(..., limit=1) on
\* assignment_id and cache_valid_till; fetcher, the same with last_sync_status
\* "Success", order_by "version desc"
CachedContext(impl, aid) ==
    LET match == {n \in ContextsOf(aid) :
                     /\ Valid(contexts[n], now)
                     /\ (impl = "fetcher" => contexts[n].last_sync_status = "Success")}
    IN  IF impl = "fetcher"
        THEN {n \in match : \A k \in match : contexts[k].version <= contexts[n].version}
        ELSE match

NewContextUnversioned(aid, till) ==
    [assignment_id |-> aid, version |-> 0, cache_valid_till |-> till,
     last_sync_status |-> "Success", refreshed_till |-> till]
\* the document inserted when the assignment_id has no record
NewContext(aid, till) ==
    [assignment_id |-> aid, version |-> 1, cache_valid_till |-> till,
     last_sync_status |-> "Success", refreshed_till |-> till]

UpdatedSameVersion(doc, ver, till) ==
    [doc EXCEPT !.version = ver, !.cache_valid_till = till,
                !.last_sync_status = "Success", !.refreshed_till = till]
\* the document saved over an existing record: version read + 1 and the new
\* cache_valid_till (refreshed_till keeps the value the last refresh wrote)
UpdatedContext(doc, ver, till) ==
    [doc EXCEPT !.version = ver + 1, !.cache_valid_till = till,
                !.last_sync_status = "Success", !.refreshed_till = till]

InvalidTillLater(t) == t + 1
\* invalidate_cache: SET cache_valid_till = NOW()
InvalidTill(t) == t

\* What a write of a document does when the table changed under it since the
\* process read it: frappe either writes it or raises (timestamp mismatch,
\* duplicate name); the source does not fix which
WriteOutcomes(stale) == IF stale THEN {"written", "conflict"} ELSE {"written"}

\* a process that is not inside a call on the cache
IdleCall ==
    [pc |-> "idle", impl |-> "none", aid |-> "none", forced |-> FALSE, attempt |-> 0,
     requests |-> 0, waits |-> << >>, resp |-> "none", till |-> 0, found |-> 0,
     ver |-> 0, result |-> "none", served |-> 0, wrote |-> FALSE]

-----------------------------------------------------------------------------
(* The similarity index: embeddings, the Vector Store table, FAISSManager *)

\* the most Vector Store records a run persists
MaxVectors == 3

\* embeddings, abstracted from 384 floats to one coordinate
Points == 0..1

\* the k process_submission searches with: the default of search_similar
default_k == 5

\* the k callers of find_similar_content ask for
Ks == {1, 2}

\* the squared L2 distance IndexFlatL2 reports
Distance(a, b) == (a - b) * (a - b)

\* the distance faiss reports in a slot it could not fill (the largest float)
PadDistance == 1000

\* the orders frappe.get_all may list the table in: no order_by is given
LoadOrders == {"creation asc", "creation desc"}

\* self.index is None, self.vector_ids is empty
NewManager == [none |-> TRUE, vectors |-> << >>, ids |-> << >>]

\* no call on the index made yet
NoOutcome ==
    [op |-> "none", name |-> 0, ok |-> TRUE, q |-> 0, k |-> 0, results |-> << >>,
     before |-> NewManager]

\* frappe.get_all("Vector Store"): the names of the records, in the order given
GetAll(tab, order) ==
    IF order = "creation asc" THEN [i \in 1..Len(tab) |-> i]
    ELSE [i \in 1..Len(tab) |-> Len(tab) + 1 - i]

\* the names among `names` whose embedding load_embedding can load, in order
RECURSIVE LoadedIds(_, _)
LoadedIds(tab, names) ==
    IF names = << >> THEN << >>
    ELSE (IF tab[Head(names)].file THEN <<Head(names)>> ELSE << >>)
             \o LoadedIds(tab, Tail(names))

\* a rebuild that lists the name of a record whose embedding it could not load
LoadExistingVectorsUnskipped(m, tab, order) ==
    LET names == GetAll(tab, order)
        ids == LoadedIds(tab, names)
    IN  [m EXCEPT !.vectors = m.vectors \o [i \in 1..Len(ids) |-> tab[ids[i]].emb],
                  !.ids = m.ids \o names]

\* _load_existing_vectors: every loadable record is appended to the index and
\* to vector_ids together; a record that fails to load is logged and skipped
LoadExistingVectors(m, tab, order) ==
    LET ids == LoadedIds(tab, GetAll(tab, order))
    IN  [m EXCEPT !.vectors = m.vectors \o [i \in 1..Len(ids) |-> tab[ids[i]].emb],
                  !.ids = m.ids \o ids]

\* the records at which an exception may leave the loop of
\* _load_existing_vectors: the load of the record fails and so does the
\* frappe.log_error of its except clause. None when the record store answers.
AbortPoints(m, tab) == IF faults /\ m.none THEN 0..Len(tab) ELSE {0}

\* initialize_index whose _load_existing_vectors is left at the j-th record
\* listed: the index is created, the names of the records loaded before are in
\* vector_ids, and index.add is never reached
AbortedLoad(m, tab, order, j) ==
    [m EXCEPT !.none = FALSE,
              !.ids = m.ids \o LoadedIds(tab, SubSeq(GetAll(tab, order), 1, j - 1))]

\* the manager a call works on: as it is (j = 0: initialize_index runs to its
\* end inside the call), or after the aborted initialize_index
Initialized(m, tab, order, j) ==
    IF j = 0 THEN m ELSE AbortedLoad(m, tab, order, j)

\* initialize_index: only a manager whose index is None builds and loads one
InitializeIndex(m, tab, order) ==
    IF m.none THEN LoadExistingVectors([m EXCEPT !.none = FALSE], tab, order)
    ELSE m

\* add_vector: initialise, load the embedding, add it to the index and append
\* its name; a failure to load is raised after the initialisation
AddVector(m, tab, name, order) ==
    LET m1 == InitializeIndex(m, tab, order)
    IN  IF tab[name].file
        THEN [m |-> [m1 EXCEPT !.vectors = Append(m1.vectors, tab[name].emb),
                               !.ids = Append(m1.ids, name)],
              ok |-> TRUE]
        ELSE [m |-> m1, ok |-> FALSE]

\* index.search: k slots, nearest first (ties by position); a slot the index
\* cannot fill carries the label -1 and the pad distance
RECURSIVE Nearest(_, _, _, _)
Nearest(vectors, q, k, taken) ==
    IF k = 0 THEN << >>
    ELSE LET cand == DOMAIN vectors \ taken
         IN  IF cand = {}
             THEN <<[idx |-> -1, distance |-> PadDistance]>>
                      \o Nearest(vectors, q, k - 1, taken)
             ELSE LET best == CHOOSE p \in cand : \A r \in cand :
                                  \/ Distance(vectors[p], q) < Distance(vectors[r], q)
                                  \/ /\ Distance(vectors[p], q) = Distance(vectors[r], q)
                                     /\ p <= r
                  IN  <<[idx |-> best - 1, distance |-> Distance(vectors[best], q)]>>
                          \o Nearest(vectors, q, k - 1, taken \cup {best})

\* whether ids[idx] raises IndexError: a negative idx counts from the end
IndexError(ids, idx) == idx >= Len(ids) \/ idx < 0 - Len(ids)

\* ids[idx] of a Python list
Item(ids, idx) == IF idx >= 0 THEN ids[idx + 1] ELSE ids[Len(ids) + idx + 1]

\* the result list of search_similar over the hits of index.search
RECURSIVE Results(_, _)
Results(ids, hits) ==
    IF hits = << >> THEN << >>
    ELSE (IF Head(hits).idx < Len(ids)
          THEN <<[vector_store |-> Item(ids, Head(hits).idx),
                  distance |-> Head(hits).distance]>>
          ELSE << >>) \o Results(ids, Tail(hits))

\* search_similar: initialise, search, map every label below len(vector_ids)
\* to its record; any exception is logged and raised
SearchSimilar(m, tab, q, k, order) ==
    LET m1 == InitializeIndex(m, tab, order)
        hits == Nearest(m1.vectors, q, k, {})
        raises == \E i \in 1..Len(hits) :
                      hits[i].idx < Len(m1.ids) /\ IndexError(m1.ids, hits[i].idx)
    IN  IF raises THEN [m |-> m1, ok |-> FALSE, results |-> << >>]
        ELSE [m |-> m1, ok |-> TRUE, results |-> Results(m1.ids, hits)]

\* the manager of the running process
Manager == [none |-> faiss.none, vectors |-> faiss.vectors, ids |-> vector_ids]

\* an empty Vector Store table and a process that has not built its index
IndexInit0 ==
    /\ vector_stores = << >>
    /\ faiss = [none |-> TRUE, vectors |-> << >>]
    /\ vector_ids = << >>
    /\ outcome = NoOutcome

-----------------------------------------------------------------------------
Init0 ==
    /\ inbound = << >>
    /\ pc = [c \in Consumers |-> "idle"]
    /\ cur = [c \in Consumers |-> 0]
    /\ existing = [c \in Consumers |-> {}]
    /\ request_id = [c \in Consumers |-> 0]
    /\ exc = [c \in Consumers |-> "none"]
    /\ raised = [c \in Consumers |-> FALSE]
    /\ sent = [c \in Consumers |-> FALSE]
    /\ records = << >>
    /\ outbound = [s \in Subs |-> 0]
    /\ reply = [c \in Consumers |-> "none"]
    /\ dispatch = [c \in Consumers |-> NoDispatch]
    /\ published = {}
    /\ answer = NoAnswer
    /\ retried = NoRetry
    /\ IndexInit0

\* an empty Assignment Context table, no call on the cache under way
CacheInit0 ==
    /\ now = 0
    /\ contexts = << >>
    /\ ctx = [c \in Consumers |-> IdleCall]
    /\ invalidated = {}

\* one consumer process, a record store that answers every call
Init == workers = {1} /\ faults = FALSE /\ Init0 /\ CacheInit0 /\ enable_caching = TRUE
\* two consumer processes on the same queue
InitConc == workers = Consumers /\ faults = FALSE /\ Init0 /\ CacheInit0 /\ enable_caching = TRUE
\* one consumer process, a record store whose calls may fail
InitFaulty == workers = {1} /\ faults = TRUE /\ Init0 /\ CacheInit0 /\ enable_caching = TRUE
\* one process calling the cache, with caching enabled or disabled in RAG Settings
InitCache == workers = {1} /\ faults = FALSE /\ Init0 /\ CacheInit0 /\ enable_caching \in BOOLEAN
\* two processes calling the cache
InitCacheConc ==
    workers = Consumers /\ faults = FALSE /\ Init0 /\ CacheInit0 /\ enable_caching = TRUE

-----------------------------------------------------------------------------
(* The upstream producer *)

Send(b) ==
    /\ Len(inbound) < MaxMsgs
    /\ inbound' = Append(inbound, [body |-> b, state |-> "ready", answers |-> 0])
    /\ UNCHANGED <<workers, faults, pc, cur, existing, request_id, exc, raised, sent,
                   records, outbound>>
    /\ UNCHANGED <<reply, dispatch, published>>
    /\ UNCHANGED <<answer, retried>>
    /\ UNCHANGED cachevars
    /\ UNCHANGED indexvars

(* The broker hands a ready message to an idle consumer (prefetch_count=1) *)
Deliver(c, m) ==
    /\ c \in workers
    /\ pc[c] = "idle"
    /\ m \in DOMAIN inbound
    /\ inbound[m].state = "ready"
    /\ WithinHorizon(m)
    /\ inbound' = IF auto_ack THEN Settle(m, "acked") ELSE Handover(m)
    /\ cur' = [cur EXCEPT ![c] = m]
    /\ pc' = [pc EXCEPT ![c] = "parse"]
    /\ UNCHANGED <<workers, faults, existing, request_id, exc, raised, sent, records, outbound>>
    /\ UNCHANGED <<reply, dispatch, published>>
    /\ UNCHANGED <<answer, retried>>
    /\ UNCHANGED cachevars
    /\ UNCHANGED indexvars

(* process_message: json.loads and the required-fields check; the TypeError of
   the check on a JSON value without `in` reaches the outer except, which
   rejects without requeue as well *)
Validate(c) ==
    /\ pc[c] = "parse"
    /\ LET body == inbound[cur[c]].body IN
       IF ~body.json \/ NotIterable(body) \/ MissingFields(body) # {}
       THEN /\ inbound' = Settle(cur[c], "dropped")      \* basic_nack(requeue=False)
            /\ pc' = [pc EXCEPT ![c] = "idle"]
            /\ cur' = [cur EXCEPT ![c] = 0]
       ELSE /\ pc' = [pc EXCEPT ![c] = "create_list"]
            /\ UNCHANGED <<inbound, cur>>
    /\ UNCHANGED <<workers, faults, existing, request_id, exc, raised, sent, records, outbound>>
    /\ UNCHANGED <<reply, dispatch, published>>
    /\ UNCHANGED <<answer, retried>>
    /\ UNCHANGED cachevars
    /\ UNCHANGED indexvars

(* create_feedback_request: the get_list; a failing frappe call anywhere in
   create_feedback_request rolls back and raises with request_id still None *)
GetList(c) ==
    /\ pc[c] = "create_list"
    /\ \E ok \in StoreOutcomes :
        IF ok
        THEN /\ existing' = [existing EXCEPT ![c] = ExistingRequests(Sid(c))]
             /\ pc' = [pc EXCEPT ![c] = "create_write"]
             /\ UNCHANGED exc
        ELSE /\ exc' = [exc EXCEPT ![c] = "db"]
             /\ pc' = [pc EXCEPT ![c] = "except"]
             /\ UNCHANGED existing
    /\ UNCHANGED <<workers, faults, inbound, cur, request_id, raised, sent, records, outbound>>
    /\ UNCHANGED <<reply, dispatch, published>>
    /\ UNCHANGED <<answer, retried>>
    /\ UNCHANGED cachevars
    /\ UNCHANGED indexvars

(* create_feedback_request: update of existing_requests[0], or insert; commit *)
SaveRequest(c) ==
    /\ pc[c] = "create_write"
    /\ IF existing[c] # {}
       THEN \E r \in existing[c] :
              /\ records' = [records EXCEPT ![r] = Reprocess(@)]
              /\ request_id' = [request_id EXCEPT ![c] = r]
       ELSE /\ records' = Append(records, NewRequest(Sid(c)))
            /\ request_id' = [request_id EXCEPT ![c] = Len(records) + 1]
    /\ existing' = [existing EXCEPT ![c] = {}]
    /\ pc' = [pc EXCEPT ![c] = "context"]
    /\ UNCHANGED <<workers, faults, inbound, cur, exc, raised, sent, outbound>>
    /\ UNCHANGED <<reply, dispatch, published>>
    /\ UNCHANGED <<answer, retried>>
    /\ UNCHANGED cachevars
    /\ UNCHANGED indexvars

(* handle_submission: get_assignment_context, and the `if not assignment_context` *)
GetContext(c) ==
    /\ pc[c] = "context"
    /\ \E ok \in BOOLEAN :
        IF ok
        THEN /\ pc' = [pc EXCEPT ![c] = "generate"]
             /\ UNCHANGED exc
        ELSE /\ exc' = [exc EXCEPT ![c] = "context"]
             /\ pc' = [pc EXCEPT ![c] = "except"]
    /\ UNCHANGED <<workers, faults, inbound, cur, existing, request_id, raised, sent,
                   records, outbound>>
    /\ UNCHANGED <<reply, dispatch, published>>
    /\ UNCHANGED <<answer, retried>>
    /\ UNCHANGED cachevars
    /\ UNCHANGED indexvars

(* handle_submission: langchain_manager.generate_feedback: the image check, the
   model call unless the image was rejected, json.loads with the fallback, and
   the required-fields check; an exception is logged and raised *)
GenerateFeedback(c) ==
    /\ pc[c] = "generate"
    /\ \E r \in Replies :
        /\ reply' = [reply EXCEPT ![c] = r]
        /\ IF ~Feedback(r).raises
           THEN /\ pc' = [pc EXCEPT ![c] = "process"]
                /\ UNCHANGED exc
           ELSE /\ exc' = [exc EXCEPT ![c] = "generate"]
                /\ pc' = [pc EXCEPT ![c] = "except"]
    /\ UNCHANGED <<workers, faults, inbound, cur, existing, request_id, raised, sent,
                   records, outbound>>
    /\ UNCHANGED <<dispatch, published>>
    /\ UNCHANGED <<answer, retried>>
    /\ UNCHANGED cachevars
    /\ UNCHANGED indexvars

(* process_feedback: update_feedback_request; on its failure the except of
   process_feedback marks the request failed and raises *)
UpdateFeedbackRequest(c) ==
    /\ pc[c] = "process"
    /\ \E ok \in StoreOutcomes, markok \in StoreOutcomes :
        IF ok
        THEN /\ records' = [records EXCEPT ![request_id[c]] = Complete(@)]
             /\ pc' = [pc EXCEPT ![c] = "send"]
             /\ UNCHANGED exc
        ELSE /\ records' = MarkFailed(records, request_id[c], "db", markok)
             /\ exc' = [exc EXCEPT ![c] = "db"]
             /\ pc' = [pc EXCEPT ![c] = "except"]
    /\ UNCHANGED <<workers, faults, inbound, cur, existing, request_id, raised, sent, outbound>>
    /\ UNCHANGED <<reply, dispatch, published>>
    /\ UNCHANGED <<answer, retried>>
    /\ UNCHANGED cachevars
    /\ UNCHANGED indexvars

(* process_feedback: prepare_tap_feedback and send_feedback_to_tap (connect,
   one basic_publish, disconnect in the finally), then the `await` of
   handle_submission on what process_feedback returned *)
SendFeedbackToTap(c) ==
    /\ pc[c] = "send"
    /\ \E out \in SendOutcomes, markok \in StoreOutcomes :
        /\ dispatch' = [dispatch EXCEPT ![c] =
                            [connects |-> @.connects + 1,
                             publishes |-> IF out = "connect failed" THEN @.publishes
                                           ELSE @.publishes + 1]]
        /\ IF out = "sent"
           THEN /\ outbound' = [outbound EXCEPT
                                   ![records[request_id[c]].submission_id] = @ + 1]
                /\ published' = published \cup
                       {Message(records[request_id[c]].submission_id, PrepareTapFeedback)}
                /\ sent' = [sent EXCEPT ![c] = TRUE]
                /\ UNCHANGED records
                /\ IF Awaitable(process_feedback_result)
                   THEN /\ pc' = [pc EXCEPT ![c] = "respond"]
                        /\ UNCHANGED exc
                   ELSE /\ exc' = [exc EXCEPT ![c] = "await"]
                        /\ pc' = [pc EXCEPT ![c] = "except"]
           ELSE /\ records' = MarkFailed(records, request_id[c], "publish", markok)
                /\ exc' = [exc EXCEPT ![c] = "publish"]
                /\ pc' = [pc EXCEPT ![c] = "except"]
                /\ UNCHANGED <<outbound, sent, published>>
    /\ UNCHANGED <<workers, faults, inbound, cur, existing, request_id, raised, reply>>
    /\ UNCHANGED <<answer, retried>>
    /\ UNCHANGED cachevars
    /\ UNCHANGED indexvars

(* handle_submission: the except block: mark the request failed if it exists,
   then raise *)
HandlerExcept(c) ==
    /\ pc[c] = "except"
    /\ \E markok \in StoreOutcomes :
        records' = IF request_id[c] # 0
                   THEN MarkFailed(records, request_id[c], exc[c], markok)
                   ELSE records
    /\ raised' = [raised EXCEPT ![c] = TRUE]
    /\ pc' = [pc EXCEPT ![c] = "respond"]
    /\ UNCHANGED <<workers, faults, inbound, cur, existing, request_id, exc, sent, outbound>>
    /\ UNCHANGED <<reply, dispatch, published>>
    /\ UNCHANGED <<answer, retried>>
    /\ UNCHANGED cachevars
    /\ UNCHANGED indexvars

(* process_message: basic_ack after handle_submission returned, or the except
   with basic_nack(requeue=True) *)
Respond(c) ==
    /\ pc[c] = "respond"
    /\ inbound' = IF raised[c]
                  THEN Requeue(cur[c])                 \* basic_nack(requeue=True)
                  ELSE Settle(cur[c], "acked")         \* basic_ack
    /\ pc' = [pc EXCEPT ![c] = "idle"]
    /\ Forget(c)
    /\ UNCHANGED <<workers, faults, records, outbound, published>>
    /\ UNCHANGED <<answer, retried>>
    /\ UNCHANGED cachevars
    /\ UNCHANGED indexvars

(* The consumer process dies inside process_message; the broker puts its
   unacknowledged delivery back on the queue *)
Crash(c) ==
    /\ pc[c] \notin {"idle", "down"}
    /\ pc' = [pc EXCEPT ![c] = "down"]
    /\ inbound' = IF inbound[cur[c]].state = "unacked"
                  THEN SetState(cur[c], "ready")
                  ELSE inbound
    /\ Forget(c)
    /\ UNCHANGED <<workers, faults, records, outbound, published>>
    /\ UNCHANGED <<answer, retried>>
    /\ UNCHANGED cachevars
    /\ UNCHANGED indexvars

(* start_consuming of a new process *)
Restart(c) ==
    /\ pc[c] = "down"
    /\ pc' = [pc EXCEPT ![c] = "idle"]
    /\ UNCHANGED <<workers, faults, inbound, cur, existing, request_id, exc, raised, sent,
                   records, outbound>>
    /\ UNCHANGED <<reply, dispatch, published>>
    /\ UNCHANGED <<answer, retried>>
    /\ UNCHANGED cachevars
    /\ UNCHANGED indexvars

(* FeedbackProcessor.retry_failed_requests: every Failed request below 3
   attempts gets one more attempt counted and goes to Pending *)
RetryFailedRequests ==
    /\ \E r \in DOMAIN records :
          records[r].status = "Failed" /\ records[r].processing_attempts < max_attempts
    /\ records' = [r \in DOMAIN records |->
                      IF /\ records[r].status = "Failed"
                         /\ records[r].processing_attempts < max_attempts
                      THEN [records[r] EXCEPT !.processing_attempts = @ + 1,
                                              !.status = "Pending"]
                      ELSE records[r]]
    /\ UNCHANGED <<workers, faults, inbound, pc, cur, existing, request_id, exc, raised,
                   sent, outbound>>
    /\ UNCHANGED <<reply, dispatch, published>>
    /\ UNCHANGED <<answer, retried>>
    /\ UNCHANGED cachevars
    /\ UNCHANGED indexvars

Consume(c) ==
    \/ \E m \in 1..MaxMsgs : Deliver(c, m)
    \/ Validate(c)
    \/ GetList(c)
    \/ SaveRequest(c)
    \/ GetContext(c)
    \/ GenerateFeedback(c)
    \/ UpdateFeedbackRequest(c)
    \/ SendFeedbackToTap(c)
    \/ HandlerExcept(c)
    \/ Respond(c)

(* The consumers on the queue, with the upstream producer *)
Next ==
    \/ \E b \in Bodies : Send(b)
    \/ \E c \in Consumers : Consume(c)

Spec == Init /\ [][Next]_vars

(* Two consumer processes on the same queue *)
SpecConc == InitConc /\ [][Next]_vars

(* A consumer process may die and be started again; the producer sends the
   invalid bodies and the messages of one submission *)
NextCrash ==
    \/ \E b \in {x \in Bodies : x.sid # "s2"} : Send(b)
    \/ \E c \in Consumers : Consume(c)
    \/ \E c \in Consumers : Crash(c)
    \/ \E c \in Consumers : Restart(c)

SpecCrash == Init /\ [][NextCrash]_vars

(* The batch retry job runs beside the consumer *)
NextBatch ==
    \/ Next
    \/ RetryFailedRequests

SpecBatch == Init /\ [][NextBatch]_vars

(* The record store may fail; the broker keeps delivering what is ready and a
   consumer that was handed a message keeps running *)
FairSpec ==
    /\ InitFaulty
    /\ [][Next]_vars
    /\ \A c \in Consumers : WF_vars(Consume(c))

-----------------------------------------------------------------------------
(* The assignment context cache *)

FailedServesStale(call) ==
    IF ContextsOf(call.aid) # {}
    THEN [call EXCEPT !.pc = "done", !.result = "hit",
                      !.served = CHOOSE n \in ContextsOf(call.aid) : TRUE]
    ELSE [call EXCEPT !.pc = "done", !.result = "failed"]
\* the call raises
Failed(call) == [call EXCEPT !.pc = "done", !.result = "failed"]

\* after _fetch_from_api returned: save to the cache if enabled (refresh_cache
\* always saves), else return what was fetched
AfterFetch(call) ==
    IF enable_caching \/ call.forced
    THEN [call EXCEPT !.pc = "save"]
    ELSE [call EXCEPT !.pc = "done", !.result = "fetched"]

(* get_assignment_context, up to the cache lookup: a hit returns the cached
   document, anything else goes on to _fetch_from_api *)
GetAssignmentContext(c, impl, aid) ==
    /\ c \in workers
    /\ ctx[c].pc = "idle"
    /\ LET call == [IdleCall EXCEPT !.impl = impl, !.aid = aid]
           cached == IF enable_caching THEN CachedContext(impl, aid) ELSE {}
       IN  IF cached # {}
           THEN \E n \in cached :
                  ctx' = [ctx EXCEPT ![c] = [call EXCEPT !.pc = "done", !.result = "hit",
                                                         !.served = n]]
           ELSE ctx' = [ctx EXCEPT ![c] = [call EXCEPT !.pc = "fetch"]]
    /\ invalidated' = invalidated \ {aid}
    /\ UNCHANGED <<workers, faults, enable_caching, now, contexts>>
    /\ UNCHANGED pipevars
    /\ UNCHANGED indexvars

(* AssignmentContextManager.refresh_cache: fetch and save, without a lookup *)
RefreshCache(c, aid) ==
    /\ c \in workers
    /\ ctx[c].pc = "idle"
    /\ ctx' = [ctx EXCEPT ![c] = [IdleCall EXCEPT !.impl = "manager", !.aid = aid,
                                                  !.forced = TRUE, !.pc = "fetch"]]
    /\ invalidated' = invalidated \ {aid}
    /\ UNCHANGED <<workers, faults, enable_caching, now, contexts>>
    /\ UNCHANGED pipevars
    /\ UNCHANGED indexvars

(* _fetch_from_api: one request to the context API and the answer r. The
   round trip takes time. The manager raises on every answer but a 200 with a
   'message'; the fetcher waits and goes on after a retryable failure and
   leaves the loop on the others. *)
Request(c, r) ==
    /\ ctx[c].pc = "fetch"
    /\ now < MaxTime
    /\ now' = now + 1
    /\ LET call == [ctx[c] EXCEPT !.requests = @ + 1, !.resp = r]
       IN  ctx' = [ctx EXCEPT ![c] =
                     IF r = "ok" THEN AfterFetch(call)
                     ELSE IF call.impl = "fetcher" /\ Retryable(r)
                          THEN [call EXCEPT !.pc = "wait"]
                          ELSE Failed(call)]
    /\ UNCHANGED <<workers, faults, enable_caching, contexts, invalidated>>
    /\ UNCHANGED pipevars
    /\ UNCHANGED indexvars

(* _wait_before_retry, and the next turn of `for attempt in range(max_retries)` *)
WaitBeforeRetry(c) ==
    /\ ctx[c].pc = "wait"
    /\ LET call == [ctx[c] EXCEPT !.waits = Append(@, WaitTime(ctx[c].attempt)),
                                  !.attempt = @ + 1]
       IN  ctx' = [ctx EXCEPT ![c] =
                     IF call.attempt < max_retries
                     THEN [call EXCEPT !.pc = "fetch"]
                     ELSE Failed(call)]
    /\ UNCHANGED <<workers, faults, enable_caching, now, contexts, invalidated>>
    /\ UNCHANGED pipevars
    /\ UNCHANGED indexvars

(* _save_to_cache / _cache_context: cache_valid_till = now + cache duration,
   then the get_list on assignment_id *)
SaveList(c) ==
    /\ ctx[c].pc = "save"
    /\ LET call == [ctx[c] EXCEPT !.till = now + cache_duration]
       IN  IF ContextsOf(call.aid) = {}
           THEN ctx' = [ctx EXCEPT ![c] = [call EXCEPT !.pc = "save_write"]]
           ELSE \E n \in ContextsOf(call.aid) :
                  ctx' = [ctx EXCEPT ![c] = [call EXCEPT !.found = n, !.pc = "save_read"]]
    /\ UNCHANGED <<workers, faults, enable_caching, now, contexts, invalidated>>
    /\ UNCHANGED pipevars
    /\ UNCHANGED indexvars

(* frappe.get_doc (manager) / frappe.get_value (fetcher) of the existing record:
   the version the new one is computed from *)
SaveRead(c) ==
    /\ ctx[c].pc = "save_read"
    /\ ctx' = [ctx EXCEPT ![c] = [@ EXCEPT !.ver = contexts[ctx[c].found].version,
                                           !.pc = "save_write"]]
    /\ UNCHANGED <<workers, faults, enable_caching, now, contexts, invalidated>>
    /\ UNCHANGED pipevars
    /\ UNCHANGED indexvars

(* doc.save() / doc.insert() and the commit *)
SaveWrite(c) ==
    /\ ctx[c].pc = "save_write"
    /\ LET call == ctx[c]
           stale == IF call.found = 0
                    THEN ContextsOf(call.aid) # {}
                    ELSE contexts[call.found].version # call.ver
       IN  \E o \in WriteOutcomes(stale) :
             IF o = "written"
             THEN /\ contexts' =
                        IF call.found = 0
                        THEN Append(contexts, NewContext(call.aid, call.till))
                        ELSE [contexts EXCEPT ![call.found] =
                                 UpdatedContext(@, call.ver, call.till)]
                  /\ ctx' = [ctx EXCEPT ![c] = [call EXCEPT !.pc = "done",
                                                           !.result = "fetched",
                                                           !.wrote = TRUE]]
             ELSE /\ contexts' = contexts
                  /\ ctx' = [ctx EXCEPT ![c] = Failed(call)]
    /\ UNCHANGED <<workers, faults, enable_caching, now, invalidated>>
    /\ UNCHANGED pipevars
    /\ UNCHANGED indexvars

(* the call returns to its caller, or its exception reaches it *)
Return(c) ==
    /\ ctx[c].pc = "done"
    /\ ctx' = [ctx EXCEPT ![c] = IdleCall]
    /\ UNCHANGED <<workers, faults, enable_caching, now, contexts, invalidated>>
    /\ UNCHANGED pipevars
    /\ UNCHANGED indexvars

(* AssignmentContextFetcher.invalidate_cache *)
InvalidateCache(c, aid) ==
    /\ c \in workers
    /\ ctx[c].pc = "idle"
    /\ contexts' = [n \in DOMAIN contexts |->
                       IF contexts[n].assignment_id = aid
                       THEN [contexts[n] EXCEPT !.cache_valid_till = InvalidTill(now)]
                       ELSE contexts[n]]
    /\ invalidated' = invalidated \cup {aid}
    /\ UNCHANGED <<workers, faults, enable_caching, now, ctx>>
    /\ UNCHANGED pipevars
    /\ UNCHANGED indexvars

(* time passes *)
Tick ==
    /\ now < MaxTime
    /\ now' = now + 1
    /\ UNCHANGED <<workers, faults, enable_caching, contexts, ctx, invalidated>>
    /\ UNCHANGED pipevars
    /\ UNCHANGED indexvars

\* the steps of a call that is under way
CallStep(c) ==
    \/ \E r \in Responses : Request(c, r)
    \/ WaitBeforeRetry(c)
    \/ SaveList(c)
    \/ SaveRead(c)
    \/ SaveWrite(c)
    \/ Return(c)

(* The processes calling the cache, the context API and the clock *)
NextCache ==
    \/ \E c \in Consumers, impl \in Impls, aid \in Aids : GetAssignmentContext(c, impl, aid)
    \/ \E c \in Consumers, aid \in Aids : RefreshCache(c, aid)
    \/ \E c \in Consumers, aid \in Aids : InvalidateCache(c, aid)
    \/ \E c \in Consumers : CallStep(c)
    \/ Tick

(* One process: its calls on the cache follow one another *)
SpecCache == InitCache /\ [][NextCache]_vars

(* Two processes whose get_assignment_context calls for one assignment_id
   interleave *)
NextCacheConc ==
    \/ \E c \in Consumers, impl \in Impls : GetAssignmentContext(c, impl, "a1")
    \/ \E c \in Consumers : CallStep(c)
    \/ Tick

SpecCacheConc == InitCacheConc /\ [][NextCacheConc]_vars

(* One process calling the fetcher's get_assignment_context; a call that is
   under way keeps running *)
NextFetch ==
    \/ \E c \in Consumers, aid \in Aids : GetAssignmentContext(c, "fetcher", aid)
    \/ \E c \in Consumers : CallStep(c)
    \/ Tick

FairCache ==
    /\ InitCache
    /\ [][NextFetch]_vars
    /\ \A c \in Consumers : WF_vars(CallStep(c))

-----------------------------------------------------------------------------
(* Vocabulary of the properties *)

\* the Feedback Request records of a submission
RecordsOf(s) == {r \in DOMAIN records : records[r].submission_id = s}

\* process_message answers the broker for the delivery it was handed
Responds(c) == pc[c] = "respond" /\ pc'[c] = "idle"

\* a body that is not JSON or lacks a required field
InvalidBody(b) == ~b.json \/ \E f \in Fields : f \notin b.fields

\* the attempt of consumer c failed in a dependency
DependencyFailed(c) == exc[c] \in {"context", "generate", "publish"}

Delivered(m) == m \in DOMAIN inbound /\ inbound[m].state = "unacked"

Settled(m) == m \in DOMAIN inbound /\ inbound[m].state \in {"acked", "dropped"}

BeyondHorizon(m) == m \in DOMAIN inbound /\ ~WithinHorizon(m)

-----------------------------------------------------------------------------
(* C1: a valid message whose context fetch, model call and publish all
   succeeded ends with its Feedback Request Completed, exactly one outbound
   message for its submission_id, and the inbound message acknowledged. *)
EndToEndSuccess ==
    [][\A c \in Consumers :
         (Responds(c) /\ sent[c]) =>
            /\ inbound'[cur[c]].state = "acked"
            /\ records'[request_id[c]].status = "Completed"
            /\ outbound'[Sid(c)] = 1]_vars

(* C2: once a Feedback Request is Failed with processing_attempts >= 3, no
   step moves it back to Processing or increments processing_attempts. *)
RetryBound ==
    [][\A r \in DOMAIN records :
         (records[r].status = "Failed" /\ records[r].processing_attempts >= max_attempts)
            => /\ records'[r].status # "Processing"
               /\ records'[r].processing_attempts = records[r].processing_attempts]_vars

(* C3: when the attempt for a valid message failed in a dependency, the failure
   is recorded on the Feedback Request, no exception leaves handle_submission,
   and the message is acknowledged, not requeued. *)
FailedAttemptAcked ==
    [][\A c \in Consumers :
         (Responds(c) /\ DependencyFailed(c)) =>
            /\ records[request_id[c]].status = "Failed"
            /\ records[request_id[c]].error_log # "none"
            /\ ~raised[c]
            /\ inbound'[cur[c]].state = "acked"]_vars

(* C4: every delivered message is eventually acknowledged or rejected without
   requeue (within the horizon of the model: up to AttemptBound attempts). *)
NoPoisonLoop ==
    \A m \in 1..MaxMsgs : Delivered(m) ~> (Settled(m) \/ BeyondHorizon(m))

(* C5: with one consumer there is at most one Feedback Request per
   submission_id; create_feedback_request on an existing submission_id updates
   that record (Processing, error cleared, processing_attempts + 1) and on a
   new one inserts exactly one record with processing_attempts = 1. *)
SingleRecordSequential ==
    /\ [](\A r1, r2 \in DOMAIN records :
            records[r1].submission_id = records[r2].submission_id => r1 = r2)
    /\ [][\A c \in Consumers :
            (pc[c] = "create_write" /\ pc'[c] = "context") =>
               LET old == RecordsOf(Sid(c))
                   id  == request_id'[c]
               IN  /\ \A r \in DOMAIN records \ {id} : records'[r] = records[r]
                   /\ records'[id].submission_id = Sid(c)
                   /\ records'[id].status = "Processing"
                   /\ records'[id].error_log = "none"
                   /\ IF old # {}
                      THEN /\ id \in old
                           /\ DOMAIN records' = DOMAIN records
                           /\ records'[id].processing_attempts
                                = records[id].processing_attempts + 1
                      ELSE /\ DOMAIN records' = DOMAIN records \cup {id}
                           /\ id \notin DOMAIN records
                           /\ records'[id].processing_attempts = 1]_vars

\* a redelivered message was counted on the record of its first attempt while
\* another submission has a record of its own
SingleRecordWitness ==
    \E r1, r2 \in DOMAIN records :
        /\ r1 # r2
        /\ records[r1].status = "Processing"
        /\ records[r1].processing_attempts >= 2

(* C6: when two consumers ran create_feedback_request for the same
   submission_id, there is exactly one Feedback Request for it, and its
   processing_attempts counts both attempts. *)
AtomicUpsert ==
    \A c1, c2 \in Consumers :
        (c1 # c2 /\ request_id[c1] # 0 /\ request_id[c2] # 0 /\ Sid(c1) = Sid(c2))
            => /\ request_id[c1] = request_id[c2]
               /\ Cardinality(RecordsOf(Sid(c1))) = 1
               /\ records[request_id[c1]].processing_attempts >= 2

(* C7: a delivery is not acknowledged when it is handed over; it is answered
   only once handle_submission has finished for it; a consumer that dies
   during the attempt leaves the message on the queue for redelivery. *)
AckAfterCompletion ==
    [][\A m \in DOMAIN inbound :
         /\ (inbound[m].state = "ready" => inbound'[m].state \in {"ready", "unacked"})
         /\ (inbound[m].state # "acked" /\ inbound'[m].state = "acked")
                => \E c \in Consumers : cur[c] = m /\ Responds(c) /\ ~raised[c]
         /\ (/\ inbound[m].state = "unacked"
             /\ inbound'[m].state # "unacked"
             /\ ~InvalidBody(inbound[m].body))
                => \E c \in Consumers : cur[c] = m /\ (Responds(c) \/ pc'[c] = "down")
         /\ \A c \in Consumers :
                (cur[c] = m /\ pc[c] # "down" /\ pc'[c] = "down")
                    => inbound'[m].state = "ready"]_vars

\* a message is being processed again while the Feedback Request of its
\* submission is still Processing: the earlier attempt died and it was redelivered
AckWitness ==
    \E c \in Consumers :
        /\ pc[c] = "create_list"
        /\ \E r \in RecordsOf(Sid(c)) : records[r].status = "Processing"

(* C8: a body that is not valid JSON, or lacks one of submission_id,
   student_id, assignment_id, img_url, is rejected without requeue;
   handle_submission does not run for it, no Feedback Request is created or
   changed and nothing is published. *)
ValidationRejection ==
    /\ [](\A c \in Consumers :
            pc[c] \notin {"idle", "parse", "down"} => ~InvalidBody(inbound[cur[c]].body))
    /\ [][\A c \in Consumers :
            (pc[c] = "parse" /\ pc'[c] # "parse" /\ InvalidBody(inbound[cur[c]].body))
               => /\ inbound'[cur[c]].state = "dropped"
                  /\ pc'[c] = "idle"
                  /\ records' = records
                  /\ outbound' = outbound]_vars

\* a message was rejected without requeue while the table holds no record
ValidationWitness ==
    /\ \E m \in DOMAIN inbound : inbound[m].state = "dropped"
    /\ records = << >>

(* C9: a Feedback Request is created Pending, and its status changes only
   Pending->Processing, Processing->Completed, Processing->Failed, and
   Failed->Processing while processing_attempts < 3. *)
StateMachineConformance ==
    [][/\ \A r \in DOMAIN records' \ DOMAIN records : records'[r].status = "Pending"
       /\ \A r \in DOMAIN records :
            records'[r].status # records[r].status =>
               \/ <<records[r].status, records'[r].status>> \in
                     {<<"Pending", "Processing">>, <<"Processing", "Completed">>,
                      <<"Processing", "Failed">>}
               \/ /\ <<records[r].status, records'[r].status>> = <<"Failed", "Processing">>
                  /\ records[r].processing_attempts < max_attempts]_vars

(* C10: an attempt that ends with the Feedback Request Failed has published no
   outbound message. *)
NoDispatchOnFailure ==
    \A c \in Consumers :
        (pc[c] = "respond" /\ request_id[c] # 0
            /\ records[request_id[c]].status = "Failed") => ~sent[c]

-----------------------------------------------------------------------------
(* C11: when send_feedback_to_tap failed after the feedback was generated and
   stored, the failure is not silent: from the moment process_feedback raised
   until process_message answers the broker, the Feedback Request is Failed
   with a non-empty error_log and completed_at set, never left Completed, and
   nothing was published for the attempt. *)
PublishFailureRecorded ==
    /\ [](\A c \in Consumers :
            (exc[c] = "publish" /\ pc[c] \in {"except", "respond"}) =>
               /\ records[request_id[c]].status = "Failed"
               /\ records[request_id[c]].error_log # "none"
               /\ records[request_id[c]].completed_at
               /\ records[request_id[c]].generated_feedback
               /\ ~sent[c])
    /\ [][\A c \in Consumers :
            (Responds(c) /\ exc[c] = "publish") =>
               /\ records'[request_id[c]].status = "Failed"
               /\ raised[c]]_vars

\* a publish failed on the second attempt for a submission, and the handler is
\* about to answer the broker
PublishFailureWitness ==
    \E c \in Consumers :
        /\ pc[c] = "respond"
        /\ exc[c] = "publish"
        /\ records[request_id[c]].processing_attempts = 2
        /\ records[request_id[c]].status = "Failed"

(* C12: when get_assignment_context failed or returned nothing, the model is
   not invoked for the attempt (the handler goes straight to its except
   block, and generation, storing and publishing are only reached by an
   attempt without a failure), and the attempt ends with the Feedback Request
   Failed, error_log non-empty and completed_at set. *)
ContextFailureEndsFailed ==
    /\ [](\A c \in Consumers :
            /\ (exc[c] = "context" => pc[c] \in {"except", "respond"} /\ ~sent[c])
            /\ (pc[c] \in {"generate", "process", "send"} => exc[c] = "none"))
    /\ [][\A c \in Consumers :
            /\ (pc[c] = "context" /\ pc'[c] # "context")
                   => \/ exc'[c] = "none" /\ pc'[c] = "generate"
                      \/ exc'[c] = "context" /\ pc'[c] = "except" /\ records' = records
            /\ (Responds(c) /\ exc[c] = "context") =>
                   /\ records[request_id[c]].status = "Failed"
                   /\ records[request_id[c]].error_log # "none"
                   /\ records[request_id[c]].completed_at
                   /\ records' = records]_vars

\* the context could not be obtained for a first attempt, whose record is
\* Failed without any feedback stored
ContextFailureWitness ==
    \E c \in Consumers :
        /\ pc[c] = "respond"
        /\ exc[c] = "context"
        /\ records[request_id[c]].status = "Failed"
        /\ records[request_id[c]].processing_attempts = 1
        /\ ~records[request_id[c]].generated_feedback

-----------------------------------------------------------------------------
(* Vocabulary of the cache properties *)

\* process c enters get_assignment_context(aid) in this step
Calls(c, aid) ==
    ctx[c].pc = "idle" /\ ctx'[c].pc # "idle" /\ ctx'[c].aid = aid /\ ~ctx'[c].forced

\* a record of aid whose cache_valid_till is strictly later than the clock
Live(aid) ==
    \E n \in DOMAIN contexts :
        contexts[n].assignment_id = aid /\ contexts[n].cache_valid_till > now

\* process c writes the Assignment Context table in this step
Writes(c) == ctx[c].pc = "save_write" /\ ctx'[c].wrote

(* C13: with caching enabled, a get_assignment_context call made while the
   entry is valid is a hit: it issues no request and changes no record, so two
   calls within the validity make one fetch in total, that of the call that
   stored the entry; a call made when the entry is missing or expired makes
   exactly one fetch (one request by the manager, one _fetch_from_api of at
   most max_retries requests by the fetcher) and, when it succeeds, stores
   version 1 for a missing entry and the stored version + 1 for an expired one. *)
CacheCorrectness ==
    /\ [](\A c \in Consumers :
            /\ ctx[c].result = "hit" => ctx[c].requests = 0 /\ ~ctx[c].wrote
            /\ ctx[c].result = "fetched" =>
                  /\ ctx[c].requests >= 1
                  /\ ctx[c].impl = "manager" => ctx[c].requests = 1
                  /\ ctx[c].impl = "fetcher" => ctx[c].requests <= max_retries
                  /\ enable_caching => ctx[c].wrote)
    /\ [][\A c \in Consumers, aid \in Aids :
            /\ (Calls(c, aid) /\ enable_caching /\ Live(aid))
                   => /\ ctx'[c].pc = "done"
                      /\ ctx'[c].result = "hit"
                      /\ contexts' = contexts
                      /\ now' = now
            /\ (Calls(c, aid) /\ enable_caching /\ ~Live(aid))
                   => ctx'[c].pc = "fetch" /\ ctx'[c].requests = 0
            /\ (Writes(c) /\ ctx[c].aid = aid) =>
                   IF ContextsOf(aid) = {}
                   THEN \E n \in DOMAIN contexts' \ DOMAIN contexts :
                          /\ contexts'[n].assignment_id = aid
                          /\ contexts'[n].version = 1
                   ELSE /\ DOMAIN contexts' = DOMAIN contexts
                        /\ \A n \in ContextsOf(aid) :
                              contexts'[n].version = contexts[n].version + 1]_vars

\* a call is a hit on an entry that was refreshed once after it had expired
CacheWitness ==
    \E c \in Consumers :
        /\ ctx[c].result = "hit"
        /\ contexts[ctx[c].served].version = 2
        /\ contexts[ctx[c].served].cache_valid_till > now

(* C14: a cached Assignment Context is returned only if it is a record of the
   requested assignment_id whose cache_valid_till is strictly later than the
   clock at the lookup; a call that finds only expired records (cache_valid_till
   at or before the clock) goes on to the external fetch. *)
NoStaleHit ==
    [][\A c \in Consumers, aid \in Aids :
         /\ (Calls(c, aid) /\ ctx'[c].result = "hit")
                => /\ enable_caching
                   /\ ctx'[c].served \in ContextsOf(aid)
                   /\ contexts[ctx'[c].served].cache_valid_till > now
         /\ (Calls(c, aid) /\ \A n \in ContextsOf(aid) : contexts[n].cache_valid_till <= now)
                => /\ ctx'[c].pc = "fetch"
                   /\ ctx'[c].served = 0]_vars

\* a call found the entry of its assignment_id expiring at this very instant
\* and is about to fetch
StaleWitness ==
    \E c \in Consumers :
        /\ ctx[c].pc = "fetch"
        /\ ctx[c].requests = 0
        /\ ~ctx[c].forced
        /\ enable_caching
        /\ \E n \in ContextsOf(ctx[c].aid) : contexts[n].cache_valid_till = now

(* C15: the first successful fetch for an assignment_id stores version 1;
   every later successful refresh writes the same record with its version
   incremented by exactly 1 and a cache_valid_till strictly later than the one
   the previous refresh wrote (and than the one stored, which invalidate_cache
   may have changed since). *)
RefreshMonotonic ==
    /\ [](\A n \in DOMAIN contexts : contexts[n].version >= 1)
    /\ [][\A c \in Consumers :
            Writes(c) =>
               LET aid == ctx[c].aid IN
               IF ContextsOf(aid) = {}
               THEN /\ Len(contexts') = Len(contexts) + 1
                    /\ contexts'[Len(contexts')].assignment_id = aid
                    /\ contexts'[Len(contexts')].version = 1
                    /\ \A n \in DOMAIN contexts : contexts'[n] = contexts[n]
               ELSE /\ DOMAIN contexts' = DOMAIN contexts
                    /\ \A n \in DOMAIN contexts \ ContextsOf(aid) : contexts'[n] = contexts[n]
                    /\ \A n \in ContextsOf(aid) :
                          /\ contexts'[n].version = contexts[n].version + 1
                          /\ contexts'[n].cache_valid_till > contexts[n].refreshed_till
                          /\ contexts'[n].cache_valid_till > contexts[n].cache_valid_till]_vars

\* an entry was refreshed twice after its first fetch: its third version has
\* just been written
RefreshWitness ==
    \E c \in Consumers :
        /\ ctx[c].pc = "done"
        /\ ctx[c].wrote
        /\ ctx[c].found # 0
        /\ contexts[ctx[c].found].version = 3

(* C16: when the external fetch fails (the manager's request, or the fetcher's
   requests up to its retry budget), the call fails: it returns nothing, not
   even an expired entry, and it has not written the Assignment Context table,
   whose records are what they were when the call began. *)
FetchFailureNoWrite ==
    /\ [](\A c \in Consumers :
            (ctx[c].pc = "done" /\ ctx[c].resp \notin {"none", "ok"}) =>
               /\ ctx[c].result = "failed"
               /\ ctx[c].served = 0
               /\ ~ctx[c].wrote)
    /\ [][\A c \in Consumers :
            (ctx[c].pc \in {"fetch", "wait"} /\ ctx'[c] # ctx[c]) =>
               /\ contexts' = contexts
               /\ (ctx'[c].resp # "ok" => ctx'[c].pc \in {"wait", "fetch", "done"})
               /\ (ctx'[c].resp # "ok" /\ ctx'[c].pc = "done") => ctx'[c].result = "failed"
               /\ (ctx'[c].result = "failed" /\ ctx[c].impl = "fetcher") =>
                     \/ ctx'[c].requests = max_retries
                     \/ ctx'[c].resp \in {"403", "404"}]_vars

\* the fetcher used up its three requests on an assignment_id whose entry has
\* expired, and the call failed
FetchFailureWitness ==
    \E c \in Consumers :
        /\ ctx[c].result = "failed"
        /\ ctx[c].impl = "fetcher"
        /\ ctx[c].requests = max_retries
        /\ \E n \in ContextsOf(ctx[c].aid) :
              contexts[n].cache_valid_till <= now /\ contexts[n].version = 1

(* C17: when the context API answers a request of
   AssignmentContextFetcher._fetch_from_api with HTTP 401, or with a response
   that has no 'message' body, the call fails right after that request: it
   does not wait and issues no further request. *)
NonRetryableAbort ==
    [][\A c \in Consumers :
         (/\ ctx[c].pc = "fetch"
          /\ ctx[c].impl = "fetcher"
          /\ ctx'[c].requests = ctx[c].requests + 1
          /\ ctx'[c].resp \in {"401", "malformed"})
            => /\ ctx'[c].pc = "done"
               /\ ctx'[c].result = "failed"
               /\ ctx'[c].waits = ctx[c].waits]_vars

(* C18: one _fetch_from_api call of the fetcher issues at most max_retries = 3
   requests; the wait after failed attempt n (n = 0, 1, 2) is
   retry_delay * 2^n, that is 1, 2, 4 seconds; the first successful response
   ends the loop; a call in which every attempt failed ends with a failure;
   and the loop always comes to an end (while the clock of the model runs). *)
BoundedRetry ==
    /\ [](\A c \in Consumers :
            /\ ctx[c].requests <= max_retries
            /\ Len(ctx[c].waits) <= max_retries
            /\ \A i \in 1..Len(ctx[c].waits) : ctx[c].waits[i] = retry_delay * 2 ^ (i - 1)
            /\ ctx[c].pc = "wait" => ctx[c].requests = Len(ctx[c].waits) + 1
            /\ (ctx[c].impl = "fetcher" /\ ctx[c].requests = max_retries
                   /\ ctx[c].resp # "ok" /\ ctx[c].pc # "wait")
                  => ctx[c].pc = "done" /\ ctx[c].result = "failed")
    /\ [][\A c \in Consumers :
            (ctx[c].pc = "fetch" /\ ctx'[c].requests = ctx[c].requests + 1
                /\ ctx'[c].resp = "ok")
               => /\ ctx'[c].pc \in {"save", "done"}
                  /\ ctx'[c].waits = ctx[c].waits]_vars
    /\ \A c \in Consumers :
          (ctx[c].pc \in {"fetch", "wait"})
              ~> (ctx[c].pc \notin {"fetch", "wait"} \/ now = MaxTime)

\* every one of the three attempts failed: the call waited 1, 2 and 4 seconds
\* and raised
RetryWitness ==
    \E c \in Consumers :
        /\ ctx[c].impl = "fetcher"
        /\ ctx[c].result = "failed"
        /\ ctx[c].requests = max_retries
        /\ ctx[c].waits = <<1, 2, 4>>

(* C19: invalidate_cache(assignment_id) leaves no record of that assignment_id
   with a cache_valid_till later than the clock, whatever it was before, and
   the next get_assignment_context for that assignment_id is not a cache hit:
   it goes on to the external fetch. *)
InvalidateForcesRefresh ==
    [][\A c \in Consumers, aid \in Aids :
         /\ (aid \in invalidated' /\ aid \notin invalidated)
                => \A n \in ContextsOf(aid) : contexts'[n].cache_valid_till <= now'
         /\ (Calls(c, aid) /\ aid \in invalidated)
                => /\ ctx'[c].pc = "fetch"
                   /\ ctx'[c].result # "hit"
                   /\ ctx'[c].served = 0]_vars

\* a call is about to fetch for an entry that would still be valid had it not
\* been invalidated
InvalidateWitness ==
    \E c \in Consumers :
        /\ ctx[c].pc = "fetch"
        /\ ctx[c].requests = 0
        /\ ~ctx[c].forced
        /\ enable_caching
        /\ \E n \in ContextsOf(ctx[c].aid) :
              /\ contexts[n].refreshed_till > now
              /\ contexts[n].cache_valid_till <= now

(* C20: when two get_assignment_context calls for the same assignment_id both
   fetched and both have finished, both succeeded, there is exactly one
   Assignment Context record for that assignment_id, and its version counts
   the second write (it is at least 2). *)
ConcurrentRefreshOneRecord ==
    \A c1, c2 \in Consumers :
        (/\ c1 # c2
         /\ ctx[c1].pc = "done" /\ ctx[c2].pc = "done"
         /\ ctx[c1].aid = ctx[c2].aid
         /\ ctx[c1].resp = "ok" /\ ctx[c2].resp = "ok")
            => /\ ctx[c1].result = "fetched" /\ ctx[c2].result = "fetched"
               /\ Cardinality(ContextsOf(ctx[c1].aid)) = 1
               /\ \A n \in ContextsOf(ctx[c1].aid) : contexts[n].version >= 2

-----------------------------------------------------------------------------
(* The similarity index: its callers and its environment *)

\* embedding_manager.save_embedding alone (the feedback text, the test data):
\* the file is written, the Vector Store record inserted, the index untouched
SaveEmbedding(v) ==
    /\ Len(vector_stores) < MaxVectors
    /\ vector_stores' = Append(vector_stores, [emb |-> v, file |-> TRUE])
    /\ outcome' = [NoOutcome EXCEPT !.op = "save", !.name = Len(vector_stores) + 1,
                                    !.before = Manager]
    /\ UNCHANGED <<faiss, vector_ids>>
    /\ UNCHANGED <<workers, faults>>
    /\ UNCHANGED pipevars
    /\ UNCHANGED cachevars

\* process_submission: save_embedding, add_vector of the new record, then
\* search_similar with the new embedding and the default k
ProcessSubmission(v) ==
    /\ Len(vector_stores) < MaxVectors
    /\ \E order \in LoadOrders, j \in 0..MaxVectors, logged \in StoreOutcomes :
        LET tab == Append(vector_stores, [emb |-> v, file |-> TRUE])
            name == Len(tab)
            m0 == Initialized(Manager, tab, order, j)
            added == AddVector(m0, tab, name, order)
            found == IF j = 0 \/ logged
                     THEN SearchSimilar(added.m, tab, v, default_k, order)
                     ELSE [m |-> m0, ok |-> FALSE, results |-> << >>]
        IN  /\ j \in AbortPoints(Manager, tab)
            /\ (j = 0) => logged
            /\ (~Manager.none) => order = "creation asc"
            /\ vector_stores' = tab
            /\ faiss' = [none |-> found.m.none, vectors |-> found.m.vectors]
            /\ vector_ids' = found.m.ids
            /\ outcome' = [op |-> "submission", name |-> name, ok |-> found.ok, q |-> v,
                           k |-> default_k, results |-> found.results,
                           before |-> Manager]
    /\ UNCHANGED <<workers, faults>>
    /\ UNCHANGED pipevars
    /\ UNCHANGED cachevars

\* find_similar_content: search_similar with the embedding of a query text
FindSimilarContent(q, k) ==
    /\ \E order \in LoadOrders, j \in 0..MaxVectors, logged \in StoreOutcomes :
        LET m0 == Initialized(Manager, vector_stores, order, j)
            found == IF j = 0 \/ logged
                     THEN SearchSimilar(m0, vector_stores, q, k, order)
                     ELSE [m |-> m0, ok |-> FALSE, results |-> << >>]
        IN  /\ j \in AbortPoints(Manager, vector_stores)
            /\ (j = 0) => logged
            /\ (~Manager.none) => order = "creation asc"
            /\ faiss' = [none |-> found.m.none, vectors |-> found.m.vectors]
            /\ vector_ids' = found.m.ids
            /\ outcome' = [op |-> "search", name |-> 0, ok |-> found.ok, q |-> q,
                           k |-> k, results |-> found.results, before |-> Manager]
    /\ UNCHANGED vector_stores
    /\ UNCHANGED <<workers, faults>>
    /\ UNCHANGED pipevars
    /\ UNCHANGED cachevars

\* the process ends and a new one starts: a new FAISSManager, the table is kept
ProcessRestart ==
    /\ ~faiss.none
    /\ faiss' = [none |-> TRUE, vectors |-> << >>]
    /\ vector_ids' = << >>
    /\ outcome' = NoOutcome
    /\ UNCHANGED vector_stores
    /\ UNCHANGED <<workers, faults>>
    /\ UNCHANGED pipevars
    /\ UNCHANGED cachevars

\* the embedding file of a record is lost: load_embedding of it throws
LoseFile(n) ==
    /\ n \in DOMAIN vector_stores
    /\ vector_stores[n].file
    /\ vector_stores' = [vector_stores EXCEPT ![n].file = FALSE]
    /\ outcome' = NoOutcome
    /\ UNCHANGED <<faiss, vector_ids>>
    /\ UNCHANGED <<workers, faults>>
    /\ UNCHANGED pipevars
    /\ UNCHANGED cachevars

NextIndex ==
    \/ \E v \in Points : SaveEmbedding(v)
    \/ \E v \in Points : ProcessSubmission(v)
    \/ \E q \in Points, k \in Ks : FindSimilarContent(q, k)
    \/ ProcessRestart
    \/ \E n \in 1..MaxVectors : LoseFile(n)

\* one process serving submissions and similarity queries
SpecIndex == Init /\ [][NextIndex]_vars

\* the same process with a record store whose calls may fail
SpecIndexFaulty == InitFaulty /\ [][NextIndex]_vars

-----------------------------------------------------------------------------
(* Claims on the similarity index *)

\* the last call was a search of the index
Searched == outcome.op \in {"search", "submission"}

\* C21: search_similar(query_vector, k) returns at most k hits in increasing
\* order of distance, and a list of length 0, without an error, when the index
\* holds no vector.
SearchContract ==
    Searched =>
        /\ outcome.ok
        /\ Len(outcome.results) <= outcome.k
        /\ \A i \in 1..Len(outcome.results) - 1 :
               outcome.results[i].distance <= outcome.results[i + 1].distance
        /\ faiss.vectors = << >> => outcome.results = << >>

\* how often the Vector Store record n stands in the position mapping
Indexed(n) == Cardinality({i \in DOMAIN vector_ids : vector_ids[i] = n})

\* the running process has indexed every persisted record, and each is loadable
LiveComplete ==
    /\ ~faiss.none
    /\ \A n \in DOMAIN vector_stores : vector_stores[n].file /\ Indexed(n) >= 1

\* C22: an index rebuilt from storage answers search_similar(v, k) with the
\* same ordered result as the index the running process built by its live
\* save_embedding + add_vector calls over the same records.
IndexDeterminism ==
    LiveComplete =>
        \A q \in Points, k \in Ks, order \in LoadOrders :
            LET live == SearchSimilar(Manager, vector_stores, q, k, order)
                rebuilt == SearchSimilar(NewManager, vector_stores, q, k, order)
            IN  live.ok = rebuilt.ok /\ live.results = rebuilt.results

\* C23: every add_vector(name), the first one of a process right after
\* save_embedding included, adds one vector and one id: the call of a process
\* with a built index makes both one longer, the first call of a process leaves
\* one vector per loadable record, and no record is ever indexed twice.
AddAppendsOne ==
    /\ \A n \in DOMAIN vector_stores : Indexed(n) <= 1
    /\ (outcome.op = "submission" /\ ~outcome.before.none) =>
           /\ Len(faiss.vectors) = Len(outcome.before.vectors) + 1
           /\ Len(vector_ids) = Len(outcome.before.ids) + 1
    /\ (outcome.op = "submission" /\ outcome.before.none) =>
           /\ Len(faiss.vectors)
                  = Cardinality({n \in DOMAIN vector_stores : vector_stores[n].file})
           /\ Len(vector_ids) = Len(faiss.vectors)

\* C24: a rebuild skips each record whose embedding cannot be loaded and does
\* not fail; every loadable record is in the index afterwards, and the vector
\* at each position is the embedding of the record the id mapping names there.
RebuildSkipsBadRecords ==
    /\ Len(faiss.vectors) = Len(vector_ids)
    /\ \A i \in DOMAIN vector_ids :
           /\ vector_ids[i] \in DOMAIN vector_stores
           /\ faiss.vectors[i] = vector_stores[vector_ids[i]].emb
    /\ (outcome.op = "search" /\ outcome.before.none) =>
           /\ ~faiss.none
           /\ \A n \in DOMAIN vector_stores :
                  IF vector_stores[n].file THEN Indexed(n) = 1 ELSE Indexed(n) = 0

\* a rebuild has skipped a record without embedding and loaded two others
RebuildWitness ==
    /\ outcome.op = "search" /\ outcome.before.none
    /\ \E n \in DOMAIN vector_stores : ~vector_stores[n].file
    /\ Len(vector_ids) = 2
    /\ vector_ids[1] > vector_ids[2]

-----------------------------------------------------------------------------
(* Claims on the model reply, the stored result and the outbound message *)

(* C25: when the feedback the model produced lacks one of the six required
   fields, generate_feedback raises: the handler goes from the generation to
   its except block without touching the record, nothing is stored or
   published for the attempt, and the attempt ends with the Feedback Request
   Failed with a non-empty error_log. *)
IncompleteFeedbackFails ==
    /\ [](\A c \in Consumers :
            reply[c] = "incomplete" =>
               /\ pc[c] \in {"except", "respond"}
               /\ exc[c] = "generate"
               /\ ~sent[c]
               /\ records[request_id[c]].status # "Completed")
    /\ [][\A c \in Consumers :
            (Responds(c) /\ reply[c] = "incomplete") =>
               /\ records[request_id[c]].status = "Failed"
               /\ records[request_id[c]].error_log # "none"
               /\ raised[c]
               /\ records' = records /\ published' = published]_vars

\* the model left out a field on the second attempt for a submission, and the
\* handler is about to answer the broker with the request Failed
IncompleteFeedbackWitness ==
    \E c \in Consumers :
        /\ pc[c] = "respond"
        /\ reply[c] = "incomplete"
        /\ records[request_id[c]].status = "Failed"
        /\ records[request_id[c]].processing_attempts = 2

(* C26: when the reply of the model cannot be parsed as JSON the attempt is a
   failure: the handler is in its except block or past it, nothing is
   published, and the Feedback Request does not become Completed with the
   fallback feedback (no caller can ask for the fallback). *)
UnparseableReplyFails ==
    \A c \in Consumers :
        reply[c] = "unparseable" =>
            /\ pc[c] \in {"except", "respond"}
            /\ ~sent[c]
            /\ records[request_id[c]].status # "Completed"

(* C27: a Feedback Request with status Completed has generated_feedback set,
   completed_at set and an empty error_log. *)
CompletedWellFormed ==
    \A r \in DOMAIN records :
        records[r].status = "Completed" =>
            /\ records[r].generated_feedback
            /\ records[r].completed_at
            /\ records[r].error_log = "none"

\* a request that had failed before is Completed on its second attempt
CompletedWitness ==
    \E r \in DOMAIN records :
        records[r].status = "Completed" /\ records[r].processing_attempts = 2

\* the keys the outbound contract names
ContractKeys ==
    {"submission_id", "student_id", "assignment_id", "feedback", "summary_text",
     "generated_at", "plagiarism_score", "similar_sources", "sent_at", "service"}

(* C28: every message send_feedback_to_tap published carries submission_id,
   student_id, assignment_id, feedback, summary_text, generated_at,
   plagiarism_score and similar_sources, plus sent_at and the service tag. *)
OutboundPayload ==
    \A m \in published : ContractKeys \subseteq m.keys

(* C29: when basic_publish failed in send_feedback_to_tap, the failure reaches
   the caller only after a second connection was opened and the publish was
   tried once more: two connects, two basic_publish calls. *)
PublishRetriedOnce ==
    \A c \in Consumers :
        (exc[c] = "publish" /\ dispatch[c].publishes > 0) =>
            dispatch[c].connects = 2 /\ dispatch[c].publishes = 2

-----------------------------------------------------------------------------
(* The status query *)

\* the request ids a caller asks about: that of the one request the consumer
\* creates, and one never created
RequestIds == 1..2

(* FeedbackHandler.get_request_status: get_doc and the status dict, or the dict
   of the except branch the exception of get_doc reaches *)
GetRequestStatus(id) ==
    /\ \E ok \in StoreOutcomes :
        LET got == GetDoc(id, ok)
        IN  answer' = IF got = "doc" THEN StatusOf(id, records[id])
                      ELSE IF got = "DoesNotExistError" THEN NotFound(id)
                      ELSE Unknown(id)
    /\ UNCHANGED retried
    /\ UNCHANGED <<workers, faults, inbound, pc, cur, existing, request_id, exc, raised,
                   sent, records, outbound>>
    /\ UNCHANGED <<reply, dispatch, published>>
    /\ UNCHANGED cachevars
    /\ UNCHANGED indexvars

(* A consumer working on the valid messages of one submission, and a caller
   asking for the status of requests *)
NextStatus ==
    \/ \E b \in {x \in Bodies : x.sid = "s1"} : Send(b)
    \/ \E c \in Consumers : Consume(c)
    \/ \E id \in RequestIds : GetRequestStatus(id)

SpecStatus == Init /\ [][NextStatus]_vars

(* C30: get_request_status(request_id) returns a value for every request_id:
   for a request that does not exist the status "Not Found", for an existing
   one its status, with has_error true exactly when its error_log is not empty
   and error_message equal to that error_log. *)
StatusQueryTotal ==
    [][\A id \in RequestIds :
          GetRequestStatus(id) =>
             /\ answer'.request_id = id
             /\ id \notin DOMAIN records => answer'.status = "Not Found"
             /\ id \in DOMAIN records =>
                   /\ answer'.status = records[id].status
                   /\ answer'.has_error <=> (records[id].error_log # "none")
                   /\ answer'.error_message = records[id].error_log]_vars

\* the status of a request that Failed on its second attempt was returned, with
\* its error
StatusWitness ==
    /\ answer.status = "Failed"
    /\ answer.has_error
    /\ answer.error_message = "error"
    /\ answer.processing_attempts = 2

-----------------------------------------------------------------------------
(* Claims on the consumer and the broker *)

\* the deliveries the broker has handed out and got no answer for
Unanswered == {m \in DOMAIN inbound : inbound[m].state = "unacked"}

\* the consumers inside process_message
Busy == {c \in Consumers : pc[c] \notin {"idle", "down"}}

(* C31: with prefetch_count=1 and manual acknowledgement a consumer holds at
   most one delivered and unanswered message: every unanswered delivery is the
   one message a consumer is inside process_message for, and a consumer takes
   its next message only when it holds none. *)
OneMessageInFlight ==
    /\ [](/\ Cardinality(Unanswered) <= Cardinality(Busy)
          /\ \A m \in Unanswered : \E c \in Busy : cur[c] = m
          /\ \A c \in Consumers : pc[c] \in {"idle", "down"} => cur[c] = 0)
    /\ [][\A c \in Consumers :
            (cur'[c] # cur[c] /\ cur'[c] # 0) =>
                /\ cur[c] = 0
                /\ \A m \in Unanswered : \E d \in Busy : d # c /\ cur[d] = m]_vars

\* a message waits on the queue while the consumer is inside process_message
\* for another one, which had been answered and requeued before
InFlightWitness ==
    \E m, n \in DOMAIN inbound :
        /\ inbound[m].state = "unacked"
        /\ inbound[n].state = "ready"
        /\ \E r \in DOMAIN records :
              /\ records[r].submission_id = inbound[m].body.sid
              /\ records[r].processing_attempts = 2

(* C32: every processing attempt of a queued submission has searched the
   similarity index and added the vector of the submission to it before the
   attempt ends: when handle_submission is over for a created request, the
   last call on the index of the consumer process was the process_submission
   of the attempt, and the index is built and not empty. *)
IndexUsedByAttempt ==
    \A c \in Consumers :
        (pc[c] = "respond" /\ request_id[c] # 0) =>
            /\ outcome.op = "submission"
            /\ ~faiss.none
            /\ vector_ids # << >>

(* C33: on every path through process_message (invalid JSON, missing fields,
   handler success, handler failure, unexpected error) the delivery gets
   exactly one basic_ack or basic_nack: none while process_message runs, one
   when it returns, never a second one. *)
ExactlyOneResponse ==
    /\ [](\A m \in DOMAIN inbound :
            /\ inbound[m].answers <= 1
            /\ inbound[m].state = "unacked" =>
                   inbound[m].answers = 0 /\ \E c \in Busy : cur[c] = m
            /\ inbound[m].state \in {"acked", "dropped"} => inbound[m].answers = 1)
    /\ [][\A c \in Consumers :
            (pc[c] \notin {"idle", "down"} /\ pc'[c] = "idle") =>
                /\ inbound[cur[c]].state = "unacked"
                /\ inbound'[cur[c]].state # "unacked"
                /\ inbound'[cur[c]].answers = 1]_vars

\* one message was rejected without requeue and another, whose handler failed,
\* was answered with a requeue: one answer each
ResponseWitness ==
    \E m, n \in DOMAIN inbound :
        /\ inbound[m].state = "ready" /\ inbound[m].answers = 1
        /\ inbound[n].state = "dropped" /\ inbound[n].answers = 1

(* C34: a Feedback Request with status Completed has had an outbound message
   published for its submission_id, in every state but those in which a
   consumer is inside process_feedback for it, between the update and the
   publish; also after a consumer died there and after a mark_request_failed
   that failed. *)
CompletedImpliesDelivered ==
    \A r \in DOMAIN records :
        records[r].status = "Completed" =>
            \/ outbound[records[r].submission_id] > 0
            \/ \E c \in Consumers : pc[c] = "send" /\ request_id[c] = r

-----------------------------------------------------------------------------
(* Claims on the retries *)

(* The batch retry job runs beside the consumer of the messages of one
   submission; the broker keeps delivering what is ready and a consumer that
   was handed a message keeps running *)
NextRetry ==
    \/ \E b \in {x \in Bodies : x.sid = "s1"} : Send(b)
    \/ \E c \in Consumers : Consume(c)
    \/ RetryFailedRequests

FairBatch ==
    /\ Init
    /\ [][NextRetry]_vars
    /\ \A c \in Consumers : WF_vars(Consume(c))

(* C35: every Feedback Request that retry_failed_requests has reset from
   Failed to Pending is eventually processed again with no new inbound message
   needed: it leaves Pending for Processing, and then gets to Completed or
   Failed. *)
BatchRetryPickedUp ==
    /\ \A r \in 1..MaxMsgs :
          (r \in DOMAIN records /\ records[r].status = "Pending")
              ~> (r \in DOMAIN records /\ records[r].status = "Processing")
    /\ \A r \in 1..MaxMsgs :
          (r \in DOMAIN records /\ records[r].status = "Pending")
              ~> (r \in DOMAIN records /\ records[r].status \in {"Completed", "Failed"})
    /\ [][\A r \in DOMAIN records :
            (records[r].status = "Pending" /\ records'[r].status # "Pending")
                => records'[r].status = "Processing"]_vars

\* consumer c passes create_feedback_request for request r in this step
CreatesOrUpdates(c, r) ==
    pc[c] = "create_write" /\ pc'[c] = "context" /\ request_id'[c] = r

(* C36: processing_attempts of a Feedback Request is the number of
   handle_submission runs started for its submission_id: a new request counts
   1, and the counter changes only in the create_feedback_request of a run for
   the request, by one. *)
AttemptCounterExact ==
    [][/\ \A r \in DOMAIN records' \ DOMAIN records :
            /\ records'[r].processing_attempts = 1
            /\ \E c \in Consumers : CreatesOrUpdates(c, r)
       /\ \A r \in DOMAIN records :
            /\ records'[r].processing_attempts # records[r].processing_attempts
                  => /\ records'[r].processing_attempts = records[r].processing_attempts + 1
                     /\ \E c \in Consumers : CreatesOrUpdates(c, r)
            /\ (\E c \in Consumers : CreatesOrUpdates(c, r))
                  => records'[r].processing_attempts = records[r].processing_attempts + 1]_vars

\* a guard that looks at the attempts only
RetryAllowedAnyStatus(doc) == doc.processing_attempts < max_attempts

\* retry_failed_request: neither ValueError is raised
RetryAllowed(doc) == doc.status = "Failed" /\ doc.processing_attempts < max_attempts

\* handle_submission as retry_failed_request runs it, from create_feedback_request
\* on the existing request rid to its return or its except block: the table
\* it leaves behind
HandleSubmission(tab, rid, ctxok, r, out, markok) ==
    LET created == [tab EXCEPT ![rid] = Reprocess(@)]
        completed == [created EXCEPT ![rid] = Complete(@)]
    IN  IF ~ctxok THEN MarkFailed(created, rid, "context", markok)
        ELSE IF Feedback(r).raises THEN MarkFailed(created, rid, "generate", markok)
        ELSE IF out # "sent" THEN MarkFailed(completed, rid, "publish", markok)
        ELSE IF Awaitable(process_feedback_result) THEN completed
        ELSE MarkFailed(completed, rid, "await", markok)

\* the exception that leaves handle_submission on that run
HandleSubmissionError(ctxok, r, out) ==
    IF ~ctxok THEN "context"
    ELSE IF Feedback(r).raises THEN "generate"
    ELSE IF out # "sent" THEN "publish"
    ELSE IF Awaitable(process_feedback_result) THEN "none"
    ELSE "await"

(* FeedbackHandler.retry_failed_request: get_doc, the two checks, and the
   handle_submission run on the message rebuilt from the request; what is
   raised is logged and raised again *)
RetryFailedRequest(id) ==
    /\ \E ok \in StoreOutcomes :
        LET got == GetDoc(id, ok)
        IN  IF got # "doc"
            THEN /\ retried' = [request_id |-> id, started |-> FALSE, error |-> got]
                 /\ UNCHANGED <<records, outbound, published>>
            ELSE IF ~RetryAllowed(records[id])
            THEN /\ retried' = [request_id |-> id, started |-> FALSE,
                                error |-> "ValueError"]
                 /\ UNCHANGED <<records, outbound, published>>
            ELSE \E rid \in ExistingRequests(records[id].submission_id),
                    ctxok \in BOOLEAN, r \in Replies, out \in SendOutcomes,
                    markok \in StoreOutcomes :
                   /\ records' = HandleSubmission(records, rid, ctxok, r, out, markok)
                   /\ IF ctxok /\ ~Feedback(r).raises /\ out = "sent"
                      THEN /\ outbound' = [outbound EXCEPT
                                              ![records[rid].submission_id] = @ + 1]
                           /\ published' = published \cup
                                  {Message(records[rid].submission_id, PrepareTapFeedback)}
                      ELSE UNCHANGED <<outbound, published>>
                   /\ retried' = [request_id |-> id, started |-> TRUE,
                                  error |-> HandleSubmissionError(ctxok, r, out)]
    /\ UNCHANGED <<workers, faults, inbound, pc, cur, existing, request_id, exc, raised,
                   sent>>
    /\ UNCHANGED <<reply, dispatch, answer>>
    /\ UNCHANGED cachevars
    /\ UNCHANGED indexvars

(* A consumer working on the valid messages of one submission, and a caller
   retrying requests by hand *)
NextManual ==
    \/ \E b \in {x \in Bodies : x.sid = "s1"} : Send(b)
    \/ \E c \in Consumers : Consume(c)
    \/ \E id \in RequestIds : RetryFailedRequest(id)

SpecManual == Init /\ [][NextManual]_vars

(* C37: retry_failed_request(request_id) starts a new attempt only for a
   request in status Failed with processing_attempts < 3; for any other
   request it fails with an error, leaves the Feedback Requests as they were
   and publishes nothing. *)
ManualRetryGuard ==
    [][\A id \in RequestIds :
          RetryFailedRequest(id) =>
             LET eligible == /\ id \in DOMAIN records
                             /\ records[id].status = "Failed"
                             /\ records[id].processing_attempts < 3
             IN  /\ retried'.request_id = id
                 /\ retried'.started => eligible
                 /\ ~eligible =>
                       /\ retried'.error # "none"
                       /\ records' = records
                       /\ outbound' = outbound
                       /\ published' = published]_vars

\* a retry by hand was refused for a request that is Failed after three
\* attempts, with no consumer at work
ManualRetryWitness ==
    /\ retried.request_id \in DOMAIN records
    /\ ~retried.started
    /\ retried.error = "ValueError"
    /\ records[retried.request_id].status = "Failed"
    /\ records[retried.request_id].processing_attempts = 3
    /\ \A m \in DOMAIN inbound : inbound[m].state = "ready"

-----------------------------------------------------------------------------
(* Further claims on the similarity index *)

(* C38: after every initialize_index, _load_existing_vectors and add_vector,
   those that hit an error included, the index holds as many vectors as
   vector_ids holds names, and position i of the index holds the embedding of
   the record vector_ids[i]. *)
IndexAligned ==
    /\ Len(faiss.vectors) = Len(vector_ids)
    /\ \A i \in DOMAIN vector_ids :
           /\ i \in DOMAIN faiss.vectors
           /\ vector_ids[i] \in DOMAIN vector_stores
           /\ faiss.vectors[i] = vector_stores[vector_ids[i]].emb

\* the slots of the last search that the index could fill, nearest first
RealHits ==
    LET hits == Nearest(faiss.vectors, outcome.q, outcome.k, {})
    IN  SelectSeq(hits, LAMBDA h : h.idx >= 0)

(* C39: every result of a search_similar that returns names the record at an
   index position the nearest-neighbour search returned, with its distance;
   a slot the search padded with position -1 does not become a result, and no
   record stands in the result twice. *)
SearchResultsReal ==
    (Searched /\ outcome.ok) =>
        /\ Len(outcome.results) = Len(RealHits)
        /\ \A i \in 1..Len(outcome.results) :
               /\ i <= Len(RealHits)
               /\ RealHits[i].idx + 1 \in DOMAIN vector_ids
               /\ outcome.results[i].vector_store = vector_ids[RealHits[i].idx + 1]
               /\ outcome.results[i].distance = RealHits[i].distance
        /\ \A i, j \in 1..Len(outcome.results) :
               i # j => outcome.results[i].vector_store # outcome.results[j].vector_store

====
